---- MODULE Spec2Model ----
(***************************************************************************)
(* Model of scripts/validate_task_docs.py: the DocumentationValidator      *)
(* pipeline (analyze_code_changes, determine_required_updates,             *)
(* check_documentation_sync, validate_task_documentation) and main().      *)
(*                                                                         *)
(* A text is a sequence of one-character strings, so that the regular      *)
(* expressions of analyze_code_changes are computed on characters.  The    *)
(* Korean section names of the path table are written in Latin letters     *)
(* (seoljeong = settings, deiteo gujo = data structure, hamsu = function,  *)
(* ereo = error, hwangyeong byeonsu = environment variable, endeupointeu = *)
(* endpoint, seksyeon = section): the module text is ASCII.                *)
(***************************************************************************)
EXTENDS Integers, Sequences, FiniteSets, TLC

VARIABLES
    argv,              \* sys.argv
    fs,                \* the entries under project_root, by name
    now,               \* the clock datetime.now() reads
    pc,                \* where the invocation is
    changes,           \* validate_task_documentation: changes
    required_updates,  \* validate_task_documentation: required_updates
    todo,              \* check_documentation_sync: the elements the loop has not taken yet
    update,            \* check_documentation_sync: the loop variable
    sync_status,       \* check_documentation_sync: sync_status
    result,            \* main: result
    exception,         \* the exception main's handler caught
    exit_code,         \* the argument of sys.exit
    started,           \* the clock when the invocation began
    touched,           \* whether an entry changed since the first invocation began
    prev,              \* what the invocation before this one produced
    s1, s2, u1, u2     \* two signal sets and their required updates

vars == <<argv, fs, now, pc, changes, required_updates, todo, update,
          sync_status, result, exception, exit_code, started, touched, prev,
          s1, s2, u1, u2>>

\* Python's None and a value that is there: the empty set, and a singleton.
None == {}

Some(x) == {x}

The(o) == CHOOSE x \in o : TRUE

\* The dictionary of lines 22-29: no flag set.
NoChanges ==
    [f \in {"struct_fields", "function_signatures", "error_codes", "config_changes",
            "api_endpoints", "general_changes"} |-> FALSE]

(***************************************************************************)
(* Bounds of the model.                                                    *)
(***************************************************************************)
\* Longest text of the classifier's specification, in tokens of Vocabulary.
MaxTokens == 3
\* Clock resolution: ticks in one day (timedelta.days counts whole days).
TicksPerDay == 2
\* Last clock value and last modification time of the model.
MaxTime == 3
\* Most directory entries (files, directories, unreadable entries) of a root.
MaxFiles == 2

(***************************************************************************)
(* Characters and the pieces of Python's re the script uses.               *)
(***************************************************************************)
UpperLetters ==
    <<"A", "B", "C", "D", "E", "F", "G", "H", "I", "J", "K", "L", "M",
      "N", "O", "P", "Q", "R", "S", "T", "U", "V", "W", "X", "Y", "Z">>

LowerLetters ==
    <<"a", "b", "c", "d", "e", "f", "g", "h", "i", "j", "k", "l", "m",
      "n", "o", "p", "q", "r", "s", "t", "u", "v", "w", "x", "y", "z">>

Digits == {"0", "1", "2", "3", "4", "5", "6", "7", "8", "9"}

Range(f) == {f[i] : i \in DOMAIN f}

\* re.IGNORECASE: both sides of a comparison are case-folded.
LowerOf ==
    [c \in Range(UpperLetters) |-> LowerLetters[CHOOSE i \in 1..26 : UpperLetters[i] = c]]

Fold(c) == IF c \in DOMAIN LowerOf THEN LowerOf[c] ELSE c

\* \s and \w
SpaceChars == {" ", "\t", "\n", "\r"}

WordChars == Range(UpperLetters) \cup Range(LowerLetters) \cup Digits \cup {"_"}

\* A position is the index of the next character to read, 1..Len(text)+1.
AllPositions(text) == 1..(Len(text) + 1)

\* The positions after a match of the literal lit that starts in S.
Lit(text, S, lit) ==
    {i + Len(lit) : i \in {j \in S : /\ j + Len(lit) - 1 <= Len(text)
                                     /\ \A k \in 1..Len(lit) :
                                          Fold(text[j + k - 1]) = Fold(lit[k])}}

\* The positions after one or more characters of the class, starting in S.
Plus(text, S, class) ==
    {j \in AllPositions(text) :
        \E i \in S : i < j /\ \A k \in i..(j - 1) : text[k] \in class}

\* The positions after zero or more characters of the class, starting in S.
Star(text, S, class) == S \cup Plus(text, S, class)

\* re.search(pattern, text, re.IGNORECASE) is not None, for a literal.
SearchLit(text, lit) == Lit(text, AllPositions(text), lit) # {}

w_type == <<"t", "y", "p", "e">>
w_struct == <<"s", "t", "r", "u", "c", "t">>
w_json == <<"j", "s", "o", "n", ":">>
w_yaml == <<"y", "a", "m", "l", ":">>
w_func == <<"f", "u", "n", "c">>
w_function == <<"f", "u", "n", "c", "t", "i", "o", "n">>
w_ErrCode == <<"E", "r", "r", "C", "o", "d", "e">>
w_Error == <<"E", "r", "r", "o", "r">>
w_error == <<"e", "r", "r", "o", "r">>
w_const == <<"c", "o", "n", "s", "t">>
w_config == <<"c", "o", "n", "f", "i", "g">>
w_Config == <<"C", "o", "n", "f", "i", "g">>
w_ENV == <<"E", "N", "V">>
w_environment == <<"e", "n", "v", "i", "r", "o", "n", "m", "e", "n", "t">>
w_loadConfig == <<"l", "o", "a", "d", "C", "o", "n", "f", "i", "g">>
w_NewConfig == <<"N", "e", "w", "C", "o", "n", "f", "i", "g">>
w_endpoint == <<"e", "n", "d", "p", "o", "i", "n", "t">>
w_route == <<"r", "o", "u", "t", "e">>
w_handler == <<"h", "a", "n", "d", "l", "e", "r">>
w_API == <<"A", "P", "I">>

\* type\s+\w+\s+struct|struct\s+\w+\s*{
re_struct_decl(text) ==
    LET all == AllPositions(text)
        a == Lit(text, Plus(text, Plus(text, Plus(text, Lit(text, all, w_type),
                     SpaceChars), WordChars), SpaceChars), w_struct)
        b == Lit(text, Star(text, Plus(text, Plus(text, Lit(text, all, w_struct),
                     SpaceChars), WordChars), SpaceChars), <<"{">>)
    IN  a \cup b # {}

\* json:|yaml:
re_field_tag(text) == SearchLit(text, w_json) \/ SearchLit(text, w_yaml)

\* func\s+\w+\s*\(|function\s+\w+\s*\(
re_func_decl(text) ==
    LET all == AllPositions(text)
        a == Lit(text, Star(text, Plus(text, Plus(text, Lit(text, all, w_func),
                     SpaceChars), WordChars), SpaceChars), <<"(">>)
        b == Lit(text, Star(text, Plus(text, Plus(text, Lit(text, all, w_function),
                     SpaceChars), WordChars), SpaceChars), <<"(">>)
    IN  a \cup b # {}

\* ErrCode|Error|error|const\s+\w+\s*=
re_error(text) ==
    LET all == AllPositions(text)
        c == Lit(text, Star(text, Plus(text, Plus(text, Lit(text, all, w_const),
                     SpaceChars), WordChars), SpaceChars), <<"=">>)
    IN  \/ SearchLit(text, w_ErrCode)
        \/ SearchLit(text, w_Error)
        \/ SearchLit(text, w_error)
        \/ c # {}

\* config|Config|ENV|environment|loadConfig|NewConfig
re_config(text) ==
    \/ SearchLit(text, w_config)
    \/ SearchLit(text, w_Config)
    \/ SearchLit(text, w_ENV)
    \/ SearchLit(text, w_environment)
    \/ SearchLit(text, w_loadConfig)
    \/ SearchLit(text, w_NewConfig)

\* endpoint|route|handler|API
re_api(text) ==
    \/ SearchLit(text, w_endpoint)
    \/ SearchLit(text, w_route)
    \/ SearchLit(text, w_handler)
    \/ SearchLit(text, w_API)

Categories ==
    {"struct_fields", "function_signatures", "error_codes", "config_changes",
     "api_endpoints"}

Flags == Categories \cup {"general_changes"}

\* any(changes.values()), when general_changes is still False
AnyOf(c) == \E f \in Categories : c[f]

\* Mutant: the flag is derived before the last category is tested.
any_changes_before_api(c) == \E f \in Categories \ {"api_endpoints"} : c[f]

any_changes(c) == AnyOf(c)

analyze_code_changes(task_details) ==
    LET c == [f \in Categories |->
                CASE f = "struct_fields" ->
                       re_struct_decl(task_details) \/ re_field_tag(task_details)
                  [] f = "function_signatures" -> re_func_decl(task_details)
                  [] f = "error_codes" -> re_error(task_details)
                  [] f = "config_changes" -> re_config(task_details)
                  [] f = "api_endpoints" -> re_api(task_details)]
    IN  [f \in Flags |-> IF f = "general_changes" THEN any_changes(c) ELSE c[f]]

(***************************************************************************)
(* determine_required_updates: the path table.                             *)
(***************************************************************************)
\* Mutant: the api_endpoints entries name the documentation files themselves.
PathTableOfFiles(category) ==
    CASE category = "struct_fields" ->
           <<"docs/schemas/",
             "README.md (seoljeong seksyeon)",
             "docs/api-documentation.md (deiteo gujo seksyeon)">>
      [] category = "function_signatures" ->
           <<"docs/api-documentation.md (hamsu seksyeon)",
             "README.md (API seksyeon)">>
      [] category = "error_codes" ->
           <<"docs/api-documentation.md (ereo seksyeon)",
             "docs/error-codes.md">>
      [] category = "config_changes" ->
           <<"README.md (hwangyeong byeonsu seksyeon)",
             "docs/configuration.md",
             "deploy/helm/gpu-webhook/values.yaml">>
      [] category = "api_endpoints" ->
           <<"docs/api-documentation.md",
             "docs/gpu-api-analysis.md">>

PathTable(category) ==
    CASE category = "struct_fields" ->
           <<"docs/schemas/",
             "README.md (seoljeong seksyeon)",
             "docs/api-documentation.md (deiteo gujo seksyeon)">>
      [] category = "function_signatures" ->
           <<"docs/api-documentation.md (hamsu seksyeon)",
             "README.md (API seksyeon)">>
      [] category = "error_codes" ->
           <<"docs/api-documentation.md (ereo seksyeon)",
             "docs/error-codes.md">>
      [] category = "config_changes" ->
           <<"README.md (hwangyeong byeonsu seksyeon)",
             "docs/configuration.md",
             "deploy/helm/gpu-webhook/values.yaml">>
      [] category = "api_endpoints" ->
           <<"docs/api-documentation.md (endeupointeu seksyeon)",
             "docs/gpu-api-analysis.md">>

\* required_updates.extend(...) when the flag is set
Extend(list, c, category) == IF c[category] THEN list \o PathTable(category) ELSE list

\* Mutant: an elif chain, only the first set flag contributes.
determine_first_only(c) ==
    IF c["struct_fields"] THEN Range(PathTable("struct_fields"))
    ELSE IF c["function_signatures"] THEN Range(PathTable("function_signatures"))
    ELSE IF c["error_codes"] THEN Range(PathTable("error_codes"))
    ELSE IF c["config_changes"] THEN Range(PathTable("config_changes"))
    ELSE IF c["api_endpoints"] THEN Range(PathTable("api_endpoints"))
    ELSE {}

\* list(set(required_updates)): no duplicates, in no particular order.  The
\* model keeps the set; the loop of check_documentation_sync takes its
\* elements in any order.
determine_required_updates(c) ==
    Range(Extend(Extend(Extend(Extend(Extend(<<>>, c, "struct_fields"),
          c, "function_signatures"), c, "error_codes"), c, "config_changes"),
          c, "api_endpoints"))

(***************************************************************************)
(* The file system under project_root, and the clock.                      *)
(***************************************************************************)
AllRequired == UNION {Range(PathTable(c)) : c \in Categories}

\* Names that end with a path separator: stat() of such a name succeeds
\* only on a directory.
DirectorySyntax == {"docs/schemas/"}

\* Names that carry a " (... seksyeon)" suffix after the file name.
ReadmeSections ==
    {"README.md (seoljeong seksyeon)",
     "README.md (API seksyeon)",
     "README.md (hwangyeong byeonsu seksyeon)"}

ApiDocSections ==
    {"docs/api-documentation.md (deiteo gujo seksyeon)",
     "docs/api-documentation.md (hamsu seksyeon)",
     "docs/api-documentation.md (ereo seksyeon)",
     "docs/api-documentation.md (endeupointeu seksyeon)"}

SectionSuffixed == ReadmeSections \cup ApiDocSections

\* The documentation file a table entry names: the entry without its suffix.
FileOf(u) ==
    IF u \in ReadmeSections THEN "README.md"
    ELSE IF u \in ApiDocSections THEN "docs/api-documentation.md"
    ELSE u

PlainDocs == {FileOf(u) : u \in SectionSuffixed}

Paths == AllRequired \cup PlainDocs

Times == 0..MaxTime

Absent == [kind |-> "absent", mtime |-> 0]

\* What a name can be: nothing, an entry whose stat() fails (EACCES, EIO,
\* ELOOP), a directory where the name ends with a separator, and otherwise
\* a regular file with a modification time.
Entries(p) ==
    {[kind |-> "denied", mtime |-> 0]}
    \cup (IF p \in DirectorySyntax THEN {[kind |-> "dir", mtime |-> 0]}
          ELSE {[kind |-> "file", mtime |-> t] : t \in Times})

\* os.path.isfile: stat() and S_ISREG; an OSError or ValueError gives False.
os_path_isfile(p) == fs[p].kind = "file"

\* datetime.now() - last_modified, .days: whole days, rounded down.
days(delta) == delta \div TicksPerDay

(***************************************************************************)
(* Command lines.                                                          *)
(***************************************************************************)
\* The character U+0060, which a TLA+ string cannot hold: it is neither \s nor
\* \w and occurs in no pattern.
Backquote == "[U+0060]"

\* 'type User struct { Name string [U+0060]json:"name"[U+0060] }'
ScenarioOne ==
    <<"t", "y", "p", "e", " ", "U", "s", "e", "r", " ", "s", "t", "r", "u",
      "c", "t", " ", "{", " ", "N", "a", "m", "e", " ", "s", "t", "r", "i",
      "n", "g", " ", Backquote, "j", "s", "o", "n", ":", "\"", "n", "a", "m", "e",
      "\"", Backquote, " ", "}">>

\* "added handler for new API endpoint"
ScenarioTwo ==
    <<"a", "d", "d", "e", "d", " ", "h", "a", "n", "d", "l", "e", "r", " ",
      "f", "o", "r", " ", "n", "e", "w", " ", "A", "P", "I", " ", "e", "n",
      "d", "p", "o", "i", "n", "t">>

\* "refactor internal helper, no public changes"
ScenarioThree ==
    <<"r", "e", "f", "a", "c", "t", "o", "r", " ", "i", "n", "t", "e", "r",
      "n", "a", "l", " ", "h", "e", "l", "p", "e", "r", ",", " ", "n", "o",
      " ", "p", "u", "b", "l", "i", "c", " ", "c", "h", "a", "n", "g", "e",
      "s">>

\* "func Run(", "fix Error", "load ENV"
TextFunc ==
    <<"f", "u", "n", "c", " ", "R", "u", "n", "(">>

TextError ==
    <<"f", "i", "x", " ", "E", "r", "r", "o", "r">>

TextConfig ==
    <<"l", "o", "a", "d", " ", "E", "N", "V">>

MainTexts == {ScenarioOne, ScenarioTwo, ScenarioThree, TextFunc, TextError, TextConfig}

\* sys.argv: the script, then <task_id> <task_details>.  The entries of fs
\* are those under the root line 219 selects, argv[3] or the working
\* directory, so a third argument adds nothing to the model.
Argvs ==
    {<<"validate_task_docs.py">>, <<"validate_task_docs.py", "T1">>}
    \cup {<<"validate_task_docs.py", "T1", t>> : t \in MainTexts}

\* The names an invocation with this command line can ask for, and the
\* documentation files their section names refer to.  No other entry of the
\* root is read.
Observable(av) ==
    IF Len(av) < 3 THEN PlainDocs
    ELSE LET required == determine_required_updates(analyze_code_changes(av[3]))
         IN  required \cup {FileOf(u) : u \in required}

\* The roots of the model: at most MaxFiles of the names are present.
RootsOver(names) ==
    UNION {{[p \in Paths |-> IF p \in S THEN e[p] ELSE Absent] :
               e \in {g \in [S -> UNION {Entries(p) : p \in S}] :
                         \A p \in S : g[p] \in Entries(p)}} :
           S \in {T \in SUBSET names : Cardinality(T) <= MaxFiles}}

WellFormed(root) == \A p \in Paths : root[p] = Absent \/ root[p] \in Entries(p)

(***************************************************************************)
(* check_documentation_sync                                                *)
(***************************************************************************)
InitialSyncStatus ==
    [status |-> "pending", last_updated |-> None, missing_files |-> <<>>,
     outdated_files |-> <<>>, valid_files |-> <<>>]

\* "not sync_status['last_updated']": None is false, a datetime is true.
Not(last_updated) == last_updated = None

\* Mutant: the age is compared in clock units, not in days.
RecentInTicks(last_modified) == now - last_modified < 1

\* Line 120: the file's age against one day.
Recent(last_modified) == days(now - last_modified) < 1

\* Mutant: a recent file is appended to valid_files and, with no else, to
\* outdated_files as well.
ClassifyNoElse(st, u, last_modified) ==
    IF Recent(last_modified)
    THEN [st EXCEPT !.valid_files = Append(@, u),
                    !.outdated_files = Append(@, u),
                    !.last_updated =
                        IF Not(@) \/ last_modified > The(@)
                        THEN Some(last_modified) ELSE @]
    ELSE [st EXCEPT !.outdated_files = Append(@, u)]

\* Mutant: last_updated is overwritten by every valid file.
ClassifyLastWins(st, u, last_modified) ==
    IF Recent(last_modified)
    THEN [st EXCEPT !.valid_files = Append(@, u),
                    !.last_updated = Some(last_modified)]
    ELSE [st EXCEPT !.outdated_files = Append(@, u)]

\* Lines 120-125: the bucket of a regular file, and the newest valid time.
Classify(st, u, last_modified) ==
    IF Recent(last_modified)
    THEN [st EXCEPT !.valid_files = Append(@, u),
                    !.last_updated =
                        IF Not(@) \/ last_modified > The(@)
                        THEN Some(last_modified) ELSE @]
    ELSE [st EXCEPT !.outdated_files = Append(@, u)]

\* Mutant: outdated_files is tested before missing_files.
derive_status_outdated_first(st) ==
    IF st.outdated_files # <<>> THEN "outdated"
    ELSE IF st.missing_files # <<>> THEN "failed"
    ELSE IF st.valid_files # <<>> THEN "completed"
    ELSE "pending"

\* Lines 129-137: the overall status; a list is true when it is not empty.
derive_status(st) ==
    IF st.missing_files # <<>> THEN "failed"
    ELSE IF st.outdated_files # <<>> THEN "outdated"
    ELSE IF st.valid_files # <<>> THEN "completed"
    ELSE "pending"

\* Mutant: both branches exit with 0.
ExitCodeAlwaysZero(validation_passed) == 0

\* Lines 232-237: sys.exit(0) when validation passed, sys.exit(1) otherwise.
ExitCodeOf(validation_passed) == IF validation_passed THEN 0 ELSE 1

Locals == <<changes, required_updates, todo, update, sync_status, result, exception,
            exit_code>>

Harness == <<started, touched, prev, s1, s2, u1, u2>>

(***************************************************************************)
(* One invocation of the script.                                           *)
(***************************************************************************)
\* main, lines 213-215: too few arguments.
Usage ==
    /\ pc = "main"
    /\ Len(argv) < 3
    /\ pc' = "exited"
    /\ exit_code' = Some(1)
    /\ started' = Some(now)
    /\ UNCHANGED <<argv, fs, now, changes, required_updates, todo, update, sync_status,
                   result, exception, touched, prev, s1, s2, u1, u2>>

\* main, lines 217-226, validate_task_documentation, lines 144-155, and
\* check_documentation_sync up to its loop.
Start ==
    /\ pc = "main"
    /\ Len(argv) >= 3
    /\ changes' = analyze_code_changes(argv[3])
    /\ required_updates' = determine_required_updates(changes')
    /\ todo' = required_updates'
    /\ sync_status' = InitialSyncStatus
    /\ started' = Some(now)
    /\ pc' = "loop"
    /\ UNCHANGED <<argv, fs, now, update, result, exception, exit_code, touched,
                   prev, s1, s2, u1, u2>>

\* Lines 111-114 and 126-127: the loop takes the next element, in whatever
\* order list(set(...)) gave, and asks whether it is a regular file.
IsFile(u) ==
    /\ pc = "loop"
    /\ u \in todo
    /\ todo' = todo \ {u}
    /\ IF os_path_isfile(u)
       THEN /\ update' = Some(u)
            /\ pc' = "getmtime"
            /\ UNCHANGED sync_status
       ELSE /\ sync_status' = [sync_status EXCEPT !.missing_files = Append(@, u)]
            /\ UNCHANGED <<update, pc>>
    /\ UNCHANGED <<argv, fs, now, changes, required_updates, result, exception,
                   exit_code>>
    /\ UNCHANGED Harness

\* Lines 116-125: os.path.getmtime raises FileNotFoundError when the file is
\* gone; main catches it at line 239 and exits with 1.
GetMtime ==
    /\ pc = "getmtime"
    /\ IF fs[The(update)].kind = "file"
       THEN /\ sync_status' = Classify(sync_status, The(update), fs[The(update)].mtime)
            /\ pc' = "loop"
            /\ UNCHANGED <<exception, exit_code>>
       ELSE /\ exception' = Some("FileNotFoundError")
            /\ exit_code' = Some(1)
            /\ pc' = "exited"
            /\ UNCHANGED sync_status
    /\ update' = None
    /\ UNCHANGED <<argv, fs, now, changes, required_updates, todo, result>>
    /\ UNCHANGED Harness

\* Lines 129-139, 159-168 and 229-237: the status, the result, the exit code.
Finish ==
    /\ pc = "loop"
    /\ todo = {}
    /\ LET st == [sync_status EXCEPT !.status = derive_status(sync_status)]
           validation_passed == st.status = "completed"
       IN  /\ sync_status' = st
           /\ result' = Some(
                        [task_id |-> argv[2],
                         changes_detected |-> changes,
                         required_updates |-> required_updates,
                         sync_status |-> st,
                         validation_passed |-> validation_passed,
                         timestamp |-> now])
           /\ exit_code' = Some(ExitCodeOf(validation_passed))
    /\ pc' = "exited"
    /\ UNCHANGED <<argv, fs, now, changes, required_updates, todo, update, exception>>
    /\ UNCHANGED Harness

\* What an invocation leaves behind, as far as two invocations are compared:
\* the lists as sets, since list(set(...)) fixes no order.
Output ==
    [changes |-> changes,
     required_updates |-> required_updates,
     missing |-> Range(sync_status.missing_files),
     outdated |-> Range(sync_status.outdated_files),
     valid |-> Range(sync_status.valid_files),
     status |-> sync_status.status,
     printed |-> result # None,
     exception |-> exception,
     exit_code |-> exit_code,
     started |-> The(started)]

\* The same command line is run again, any number of times.
Reinvoke ==
    /\ pc = "exited"
    /\ prev' = Some(Output)
    /\ pc' = "main"
    /\ changes' = NoChanges
    /\ required_updates' = {}
    /\ todo' = {}
    /\ update' = None
    /\ sync_status' = InitialSyncStatus
    /\ result' = None
    /\ exception' = None
    /\ exit_code' = None
    /\ UNCHANGED <<argv, fs, now, started, touched, s1, s2, u1, u2>>

(***************************************************************************)
(* The environment: time passes, and another process removes the file the  *)
(* loop has just found, before its modification time is read.              *)
(***************************************************************************)
Tick ==
    /\ now < MaxTime
    /\ now' = now + 1
    /\ UNCHANGED <<argv, fs, pc>>
    /\ UNCHANGED Locals
    /\ UNCHANGED Harness

Unlink ==
    /\ pc = "getmtime"
    /\ fs[The(update)].kind = "file"
    /\ fs' = [fs EXCEPT ![The(update)] = Absent]
    /\ touched' = TRUE
    /\ UNCHANGED <<argv, now, pc, started, prev, s1, s2, u1, u2>>
    /\ UNCHANGED Locals

Init ==
    /\ argv \in Argvs
    /\ fs \in RootsOver(Observable(argv))
    /\ now = TicksPerDay
    /\ pc = "main"
    /\ changes = NoChanges
    /\ required_updates = {}
    /\ todo = {}
    /\ update = None
    /\ sync_status = InitialSyncStatus
    /\ result = None
    /\ exception = None
    /\ exit_code = None
    /\ started = None
    /\ touched = FALSE
    /\ prev = None
    /\ s1 = None /\ s2 = None /\ u1 = None /\ u2 = None

Next ==
    \/ Usage
    \/ Start
    \/ \E u \in Paths : IsFile(u)
    \/ GetMtime
    \/ Finish
    \/ Reinvoke
    \/ Tick
    \/ Unlink

Spec == Init /\ [][Next]_vars

TypeOK ==
    /\ pc \in {"main", "loop", "getmtime", "exited"}
    /\ WellFormed(fs)
    /\ now \in Times
    /\ exit_code \in {None, Some(0), Some(1)}
    /\ (pc = "exited") = (exit_code # None)
    /\ (pc = "getmtime") = (update # None)

(***************************************************************************)
(* The classifier alone, over every text of at most MaxTokens tokens.      *)
(***************************************************************************)
Vocabulary ==
    {w_type, w_struct, w_func, w_const, w_json,
     <<" ", "x", " ">>, <<"x">>, <<"{">>, <<"(">>, <<"=">>,
     <<"E", "R", "R", "O", "R">>, <<"e", "n", "v">>, <<"A", "p", "i">>}

RECURSIVE Concat(_)
Concat(tokens) == IF tokens = <<>> THEN <<>> ELSE Head(tokens) \o Concat(Tail(tokens))

Texts(longest) == {Concat(ts) : ts \in UNION {[1..n -> Vocabulary] : n \in 0..longest}}

InitClassify ==
    /\ argv \in {<<"validate_task_docs.py", "T1", t>> : t \in Texts(MaxTokens)}
    /\ fs = [p \in Paths |-> Absent]
    /\ now = TicksPerDay
    /\ pc = "analyze"
    /\ changes = NoChanges
    /\ required_updates = {}
    /\ todo = {}
    /\ update = None
    /\ sync_status = InitialSyncStatus
    /\ result = None
    /\ exception = None
    /\ exit_code = None
    /\ started = None
    /\ touched = FALSE
    /\ prev = None
    /\ s1 = None /\ s2 = None /\ u1 = None /\ u2 = None

\* Line 147: changes = self.analyze_code_changes(task_details)
Analyze ==
    /\ pc = "analyze"
    /\ changes' = analyze_code_changes(argv[3])
    /\ pc' = "analyzed"
    /\ UNCHANGED <<argv, fs, now, required_updates, todo, update, sync_status, result,
                   exception, exit_code>>
    /\ UNCHANGED Harness

NextClassify == Analyze

SpecClassify == InitClassify /\ [][NextClassify]_vars

(***************************************************************************)
(* The mapper alone, over every pair of signal sets.                       *)
(***************************************************************************)
SignalSets == [Flags -> BOOLEAN]

InitMapper ==
    /\ s1 \in SignalSets
    /\ s2 \in SignalSets
    /\ u1 = {}
    /\ u2 = {}
    /\ argv = <<"validate_task_docs.py">>
    /\ fs = [p \in Paths |-> Absent]
    /\ now = TicksPerDay
    /\ pc = "map"
    /\ changes = NoChanges
    /\ required_updates = {}
    /\ todo = {}
    /\ update = None
    /\ sync_status = InitialSyncStatus
    /\ result = None
    /\ exception = None
    /\ exit_code = None
    /\ started = None
    /\ touched = FALSE
    /\ prev = None

\* Line 151: required_updates = self.determine_required_updates(changes)
Map ==
    /\ pc = "map"
    /\ u1' = determine_required_updates(s1)
    /\ u2' = determine_required_updates(s2)
    /\ pc' = "mapped"
    /\ UNCHANGED <<argv, fs, now, changes, required_updates, todo, update, sync_status,
                   result, exception, exit_code, started, touched, prev, s1, s2>>

NextMapper == Map

SpecMapper == InitMapper /\ [][NextMapper]_vars

(***************************************************************************)
(* Properties.                                                             *)
(***************************************************************************)
Exited == pc = "exited"

\* The invocation ran validate_task_documentation to its end.
Returned == pc = "exited" /\ result # None

Missing == Range(sync_status.missing_files)

Outdated == Range(sync_status.outdated_files)

Valid == Range(sync_status.valid_files)

OnlyFlags(S) == \A f \in Flags : changes[f] = (f \in S)

\* A regular file whose last modification is not after the invocation began
\* and less than a day old now.
JustModified(p) ==
    /\ fs[p].kind = "file"
    /\ started # None
    /\ fs[p].mtime <= The(started)
    /\ now - fs[p].mtime < TicksPerDay

\* C1: the invocation with task_details "added handler for new API endpoint",
\* in a root that holds just-modified regular files docs/api-documentation.md
\* and docs/gpu-api-analysis.md, sets only api_endpoints and general_changes,
\* finds every required path valid, derives "completed" and exits with 0.
C1_ScenarioTwoCompletes ==
    (/\ Exited
     /\ argv = <<"validate_task_docs.py", "T1", ScenarioTwo>>
     /\ ~touched
     /\ JustModified("docs/api-documentation.md")
     /\ JustModified("docs/gpu-api-analysis.md"))
    => /\ OnlyFlags({"api_endpoints", "general_changes"})
       /\ Valid = required_updates
       /\ sync_status.status = "completed"
       /\ exit_code = Some(0)

\* C2: when an invocation has exited, its exit code is 0 exactly when the
\* derived status is "completed", which is exactly when validation_passed is
\* true; it is 1 in every other outcome: status failed, outdated or pending,
\* fewer than two arguments (and then nothing was validated), or an
\* exception caught by main.
C2_ExitCode ==
    Exited =>
       /\ exit_code \in {Some(0), Some(1)}
       /\ (exit_code = Some(0)) = (sync_status.status = "completed")
       /\ (exit_code = Some(0)) = (result # None /\ The(result).validation_passed)
       /\ result # None =>
            /\ The(result).sync_status = sync_status
            /\ The(result).validation_passed = (sync_status.status = "completed")
       /\ Len(argv) < 3 =>
            /\ exit_code = Some(1)
            /\ result = None
            /\ changes = NoChanges
            /\ required_updates = {}
            /\ sync_status = InitialSyncStatus
       /\ exception # None => exit_code = Some(1) /\ result = None

C2_Witness == Exited /\ exit_code = Some(0) /\ Len(sync_status.valid_files) = 2

\* C3: the status check_documentation_sync returns is decided by which
\* buckets are non-empty, the first match winning: missing gives "failed",
\* else outdated gives "outdated", else valid gives "completed", else
\* (nothing required) "pending".
C3_StatusPriority ==
    Returned =>
       LET m == Missing # {}
           o == Outdated # {}
           v == Valid # {}
       IN  /\ m => sync_status.status = "failed"
           /\ (~m /\ o) => sync_status.status = "outdated"
           /\ (~m /\ ~o /\ v) => sync_status.status = "completed"
           /\ (~m /\ ~o /\ ~v) => sync_status.status = "pending" /\ required_updates = {}

C3_Witness ==
    Returned /\ Missing # {} /\ Outdated # {} /\ Valid # {}
    /\ sync_status.status = "failed"

\* C4: while check_documentation_sync runs, the three buckets, the element
\* being looked at and the elements not taken yet partition the required
\* updates; when it has returned, the buckets alone partition them: every
\* required path is in exactly one bucket, no bucket holds another path, and
\* the three lengths add up to the number of required paths.
C4_Partition ==
    (pc \in {"loop", "getmtime"} \/ Returned) =>
       /\ Missing \cup Outdated \cup Valid \cup update \cup todo = required_updates
       /\ Len(sync_status.missing_files) + Len(sync_status.outdated_files)
            + Len(sync_status.valid_files) + Cardinality(update) + Cardinality(todo)
          = Cardinality(required_updates)
       /\ Returned => update = {} /\ todo = {}

C4_Witness ==
    Returned /\ Cardinality(required_updates) = 3 /\ Len(sync_status.valid_files) = 1
    /\ Len(sync_status.outdated_files) = 1 /\ Len(sync_status.missing_files) = 1

\* C5: check_documentation_sync never fails: no exception leaves it, whatever
\* the file system does, and a path that is not a regular file when the
\* invocation exits (it cannot be stat'd, or it was removed) is in the
\* missing bucket.
C5_SyncNeverFails ==
    (Exited /\ Len(argv) >= 3) =>
       /\ exception = None
       /\ result # None
       /\ \A u \in required_updates : ~os_path_isfile(u) => u \in Missing

\* What two invocations are compared on.
SameOutput(a, b) ==
    /\ a.changes = b.changes
    /\ a.required_updates = b.required_updates
    /\ a.missing = b.missing
    /\ a.outdated = b.outdated
    /\ a.valid = b.valid
    /\ a.status = b.status
    /\ a.exit_code = b.exit_code

\* The original statement of C6: two invocations with the same command line
\* and an unchanged file system produce the same flags, required updates,
\* buckets, status and exit code, whatever the time at which each runs.
C6_SameOutputWhateverTheTime ==
    (Exited /\ prev # None /\ ~touched) => SameOutput(The(prev), Output)

\* Every required regular file is on the same side of one day of age when
\* the earlier invocation began and now.
SameSideOfOneDay(since) ==
    \A u \in required_updates :
       fs[u].kind = "file" =>
          ((since - fs[u].mtime < TicksPerDay) = (now - fs[u].mtime < TicksPerDay))

\* C6: two invocations with the same command line and an unchanged file
\* system produce the same flags and the same required updates whatever the
\* time at which each runs, and the same buckets (as sets), status and exit
\* code provided every required regular file is on the same side of one day
\* of age from the beginning of the first to the end of the second.
C6_SameOutputSameAges ==
    (Exited /\ prev # None /\ ~touched) =>
       /\ The(prev).changes = changes
       /\ The(prev).required_updates = required_updates
       /\ SameSideOfOneDay(The(prev).started) => SameOutput(The(prev), Output)

C6_Witness ==
    /\ Exited /\ prev # None /\ ~touched
    /\ now > The(prev).started
    /\ Valid # {} /\ Outdated # {}
    /\ SameSideOfOneDay(The(prev).started)
    /\ SameOutput(The(prev), Output)

Implies(a, b) == \A f \in Flags : a[f] => b[f]

\* C7: determine_required_updates is monotone: when every flag set in s1 is
\* set in s2, the required updates of s1 are among those of s2; and with no
\* flag set nothing is required.
C7_Monotone ==
    pc = "mapped" =>
       /\ Implies(s1, s2) => u1 \subseteq u2
       /\ (\A f \in Flags : ~s1[f]) => u1 = {}

C7_Witness ==
    /\ pc = "mapped" /\ Implies(s1, s2)
    /\ s1["api_endpoints"] /\ ~s1["struct_fields"] /\ s2["struct_fields"]
    /\ u1 # {} /\ u1 # u2 /\ u1 \subseteq u2

(***************************************************************************)
(* The triggers of the categories, stated on the characters of the text.   *)
(***************************************************************************)
SameLetter(a, b) ==
    a = b \/ \E i \in 1..26 : {a, b} = {UpperLetters[i], LowerLetters[i]}

\* lit stands in text at index i, letter case ignored.
Occurs(text, i, lit) ==
    /\ i >= 1
    /\ i + Len(lit) - 1 <= Len(text)
    /\ \A k \in 1..Len(lit) : SameLetter(text[i + k - 1], lit[k])

Contains(text, lit) == \E i \in 1..Len(text) : Occurs(text, i, lit)

\* text[a..b] is a non-empty run of characters of the set.
RunOf(text, a, b, chars) ==
    a >= 1 /\ a <= b /\ b <= Len(text) /\ \A k \in a..b : text[k] \in chars

\* keyword, blanks, a name, then closer: after blanks when gap, after
\* optional blanks otherwise.
Declares(text, keyword, closer, gap) ==
    \E i \in 1..Len(text) :
       /\ Occurs(text, i, keyword)
       /\ \E a \in 1..Len(text) :
            /\ RunOf(text, i + Len(keyword), a, SpaceChars)
            /\ \E b \in 1..Len(text) :
                 /\ RunOf(text, a + 1, b, WordChars)
                 /\ \/ ~gap /\ Occurs(text, b + 1, closer)
                    \/ \E c \in 1..Len(text) :
                         RunOf(text, b + 1, c, SpaceChars) /\ Occurs(text, c + 1, closer)

Trigger(category, text) ==
    CASE category = "struct_fields" ->
           \/ Declares(text, w_type, w_struct, TRUE)
           \/ Declares(text, w_struct, <<"{">>, FALSE)
           \/ Contains(text, w_json) \/ Contains(text, w_yaml)
      [] category = "function_signatures" ->
           \/ Declares(text, w_func, <<"(">>, FALSE)
           \/ Declares(text, w_function, <<"(">>, FALSE)
      [] category = "error_codes" ->
           \/ Contains(text, w_ErrCode) \/ Contains(text, w_error)
           \/ Declares(text, w_const, <<"=">>, FALSE)
      [] category = "config_changes" ->
           \/ Contains(text, w_config) \/ Contains(text, w_ENV)
           \/ Contains(text, w_environment)
      [] category = "api_endpoints" ->
           \/ Contains(text, w_endpoint) \/ Contains(text, w_route)
           \/ Contains(text, w_handler) \/ Contains(text, w_API)

\* C8: analyze_code_changes sets general_changes exactly when one of the five
\* category flags is set; a text that contains a category's trigger sets the
\* category's flag; a text that contains no trigger sets none of the six.
C8_Classifier ==
    pc = "analyzed" =>
       /\ changes["general_changes"] = (\E f \in Categories : changes[f])
       /\ \A f \in Categories : Trigger(f, argv[3]) => changes[f]
       /\ (\A f \in Categories : ~Trigger(f, argv[3])) => \A f \in Flags : ~changes[f]

C8_Witness ==
    /\ pc = "analyzed"
    /\ Trigger("api_endpoints", argv[3])
    /\ \A f \in Categories \ {"api_endpoints"} : ~Trigger(f, argv[3])
    /\ OnlyFlags({"api_endpoints", "general_changes"})

Max(S) == CHOOSE x \in S : \A y \in S : y <= x

\* last_updated is None exactly when no file is valid, and otherwise the
\* newest modification time of the valid files.
LastUpdatedIsNewestValid ==
    /\ (sync_status.last_updated = None) = (Valid = {})
    /\ Valid # {} => sync_status.last_updated = Some(Max({fs[u].mtime : u \in Valid}))

\* C9: a required regular file goes to the valid bucket exactly when
\* now - lastModified is less than one day (a modification time in the
\* future included) and to the outdated bucket otherwise; last_updated is the
\* newest modification time of the valid bucket, None exactly when it is empty.
C9_Recency ==
    [][(pc = "getmtime" /\ pc' = "loop") =>
         LET u == The(update)
             age == now - fs[u].mtime
         IN  /\ age < TicksPerDay =>
                  /\ sync_status'.valid_files = Append(sync_status.valid_files, u)
                  /\ sync_status'.outdated_files = sync_status.outdated_files
             /\ age >= TicksPerDay =>
                  /\ sync_status'.outdated_files = Append(sync_status.outdated_files, u)
                  /\ sync_status'.valid_files = sync_status.valid_files
             /\ sync_status'.missing_files = sync_status.missing_files
             /\ LastUpdatedIsNewestValid']_vars

C9_Witness ==
    /\ Returned
    /\ Len(sync_status.valid_files) = 2
    /\ fs[sync_status.valid_files[1]].mtime > now
    /\ fs[sync_status.valid_files[2]].mtime < now
    /\ sync_status.last_updated = Some(fs[sync_status.valid_files[1]].mtime)

\* No regular file carries a section suffix in its name.
OnlyPlainFiles == \A p \in SectionSuffixed : fs[p].kind # "file"

\* C10: every category's list holds an entry that is not a plain file path (a
\* section-suffixed name, or the directory name docs/schemas/); so in a root
\* with no regular file of a section-suffixed name, every task_details that
\* sets a flag yields "failed", and none yields "completed" or exit code 0.
C10_NeverCompletes ==
    /\ \A c \in Categories :
          Range(PathTable(c)) \cap (SectionSuffixed \cup DirectorySyntax) # {}
    /\ (Exited /\ ~touched /\ OnlyPlainFiles) =>
          /\ changes["general_changes"] => sync_status.status = "failed"
          /\ sync_status.status # "completed"
          /\ exit_code # Some(0)

C10_Witness ==
    /\ Exited /\ ~touched /\ OnlyPlainFiles
    /\ changes["api_endpoints"]
    /\ JustModified("docs/api-documentation.md")
    /\ JustModified("docs/gpu-api-analysis.md")
    /\ sync_status.status = "failed"
    /\ exit_code = Some(1)

====
